---- MODULE Spec2Model ----
(***************************************************************************)
(* Model of ylearn.effect_interpreter.policy_interpreter.PolicyInterpreter *)
(* One interpreter instance; its constructor is Init, and fit / interpret  *)
(* are the two operations.  A call runs to completion in one action; the   *)
(* statements of fit are the stage operators below, applied in source      *)
(* order to a call frame, each skipped once an exception is pending.       *)
(***************************************************************************)
EXTENDS Integers, Sequences, FiniteSets, TLC

VARIABLES
    self,   \* the PolicyInterpreter instance (its attributes)
    ctor,   \* the keyword arguments the instance was constructed with
    last    \* the most recent call on the instance and how it ended

vars == <<self, ctor, last>>

(* ------------------------------ bounds -------------------------------- *)
NumData == 2    \* datasets 1..NumData; dataset d has d rows
MaxCols == 2    \* longest outcome column list of an estimator
NumArms == 2    \* extent of each trailing axis of an effect array

(* --------------------------- Python values ---------------------------- *)
None  == [tag |-> "None"]
Unset == [tag |-> "unset"]          \* attribute that was never assigned
List(items) == [tag |-> "list", items |-> items]
NoExc == [kind |-> "none", msg |-> ""]
SelfRef == [tag |-> "ref", to |-> "self"]

HyperNames ==
    {"criterion", "splitter", "max_depth", "min_samples_split",
     "min_samples_leaf", "random_state", "max_leaf_nodes", "max_features",
     "min_impurity_decrease", "ccp_alpha", "min_weight_fraction_leaf"}

\* the defaults of the constructor's signature, as Python literals
DefaultArgs ==
    [criterion |-> "'policy_reg'", splitter |-> "'best'", max_depth |-> "None",
     min_samples_split |-> "2", min_samples_leaf |-> "1",
     random_state |-> "2022", max_leaf_nodes |-> "None",
     max_features |-> "None", min_impurity_decrease |-> "0.0",
     ccp_alpha |-> "0.0", min_weight_fraction_leaf |-> "0.0"]

\* a caller's configuration in which every field has a value of its own
CustomArgs ==
    [criterion |-> "'policy_reg'", splitter |-> "'random'", max_depth |-> "3",
     min_samples_split |-> "4", min_samples_leaf |-> "5",
     random_state |-> "7", max_leaf_nodes |-> "8",
     max_features |-> "'sqrt'", min_impurity_decrease |-> "0.1",
     ccp_alpha |-> "0.2", min_weight_fraction_leaf |-> "0.3"]

Configurations == {DefaultArgs, CustomArgs}

(* ------------------------------ inputs --------------------------------- *)
Data == 1..NumData
nrows(data) == data

ColNames(prefix, k) == [i \in 1..k |-> <<prefix, i>>]

\* estimator objects: covariate (None or a list), outcome (a list), _is_fitted
Estimators ==
    [covariate : {None, List(<<"x1", "x2">>)},
     outcome : {List(ColNames("y", k)) : k \in 0..MaxCols},
     _is_fitted : BOOLEAN]

\* the extra keyword arguments of a call, forwarded to est_model.estimate
Kwargs == {<<"target_outcome">>}

\* what the collaborators do when called: est_model.estimate raises
\* (effect_ndim = 0) or returns an array of 1, 2 or 3 dimensions; the policy
\* tree's fit returns or raises
Envs ==
    {[effect_ndim |-> 0, tree_fit_ok |-> TRUE]}
        \cup [effect_ndim : 1..3, tree_fit_ok : BOOLEAN]

(* ------------------------- external collaborators ---------------------- *)
Array(shape, of) == [tag |-> "array", shape |-> shape, of |-> of]

ndim(a) == Len(a.shape)

RECURSIVE Prod(_)
Prod(s) == IF s = <<>> THEN 1 ELSE Head(s) * Prod(Tail(s))

\* numpy's a.reshape(n, -1): a new array, the operand is left as it is
reshape(a, n) == [a EXCEPT !.shape = <<n, Prod(a.shape) \div n>>]

\* utils._common.convert2array(data, covariate, outcome) -> (v: n x f, y: n x o)
convert2array(data, covariate, outcome) ==
    << Array(<<nrows(data), Len(covariate.items)>>, <<"columns", data, covariate.items>>),
       Array(<<nrows(data), Len(outcome.items)>>, <<"columns", data, outcome.items>>) >>

\* est_model.estimate(data=, quantity=, **kwargs) -> (n,) | (n,k) | (n,k,m)
estimate(est_model, data, quantity, kwargs, env) ==
    IF env.effect_ndim = 0
    THEN [exc |-> [kind |-> "EstimatorError", msg |-> "estimate"], value |-> None]
    ELSE [exc |-> NoExc,
          value |-> Array(<<nrows(data)>> \o [i \in 1..(env.effect_ndim - 1) |-> NumArms],
                          <<"effect", data, kwargs>>)]

\* policy.policy_model.PolicyTree(**hyperparameters): a new, unfitted tree
PolicyTree(params) == [tag |-> "PolicyTree", params |-> params, fits |-> <<>>]

\* PolicyTree.fit(data=, covariate=, effect_array=): fits the tree in place
PolicyTree_fit(tree, data, covariate, effect_array, env) ==
    IF env.tree_fit_ok
    THEN [exc |-> NoExc,
          tree |-> [tree EXCEPT !.fits = Append(@, [data |-> data,
                                                    covariate |-> covariate,
                                                    effect_array |-> effect_array])]]
    ELSE [exc |-> [kind |-> "TreeError", msg |-> "fit"], tree |-> tree]

(* ----------------------------- __init__ -------------------------------- *)
__init__(args) ==
    [_is_fitted |-> FALSE, treatment |-> None, outcome |-> None,
     criterion |-> args.criterion, splitter |-> args.splitter,
     max_depth |-> args.max_depth,
     min_samples_split |-> args.min_samples_split,
     min_samples_leaf |-> args.min_samples_leaf,
     max_leaf_nodes |-> args.max_leaf_nodes,
     min_impurity_decrease |-> args.min_impurity_decrease,
     ccp_alpha |-> args.ccp_alpha, random_state |-> args.random_state,
     min_weight_fraction_leaf |-> args.min_weight_fraction_leaf,
     max_features |-> args.max_features,
     v |-> Unset, _tree |-> Unset]

(* ------------------------------- fit ----------------------------------- *)
\* the frame of one call of fit: arguments, locals, the instance, the
\* estimator, the calls made to collaborators, and the pending exception
Enter(slf, data, est_model, kwargs, env) ==
    [self |-> slf, data |-> data, est_model |-> est_model, kwargs |-> kwargs,
     env |-> env,
     covariate |-> Unset, outcome |-> Unset, v |-> Unset, y |-> Unset,
     n |-> 0, _y_d |-> 0, causal_effect |-> Unset,
     calls |-> <<>>, exc |-> NoExc, ret |-> Unset]

Raise(f, kind, msg) == [f EXCEPT !.exc = [kind |-> kind, msg |-> msg]]

\* an exception is propagating: the statements that follow are not run
Pending(f) == f.exc # NoExc

ReadEstimator(f) ==
    [f EXCEPT !.covariate = f.est_model.covariate,
              !.outcome = f.est_model.outcome]

AssertCovariate(f) ==
    IF f.covariate # None THEN f
    ELSE Raise(f, "AssertionError", "Need covariate to interpret the causal effect.")

AssertEstimatorFitted_skipped(f) == f

AssertEstimatorFitted(f) ==
    IF f.est_model._is_fitted THEN f ELSE Raise(f, "AssertionError", "")

Convert(f) ==
    LET r == convert2array(f.data, f.covariate, f.outcome)
    IN [f EXCEPT !.v = r[1], !.y = r[2],
                 !.n = r[2].shape[1], !._y_d = r[2].shape[2],
                 !.calls = Append(@, [callee |-> "convert2array", data |-> f.data,
                                      covariate |-> f.covariate, outcome |-> f.outcome])]

StoreV_invalidating(f) == [f EXCEPT !.self.v = f.v, !.self._is_fitted = FALSE]

StoreV(f) == [f EXCEPT !.self.v = f.v]

AssertUnivariate_skipped(f) == f

AssertUnivariate(f) ==
    IF f._y_d = 1 THEN f ELSE Raise(f, "AssertionError", "")

Estimate(f) ==
    LET r == estimate(f.est_model, f.data, None, f.kwargs, f.env)
        g == [f EXCEPT !.calls = Append(@, [callee |-> "est_model.estimate",
                                            data |-> f.data, quantity |-> None,
                                            kwargs |-> f.kwargs,
                                            returned |-> r.value])]
    IN IF r.exc = NoExc THEN [g EXCEPT !.causal_effect = r.value]
       ELSE [g EXCEPT !.exc = r.exc]

Flatten_assigned(f) ==
    IF ndim(f.causal_effect) = 3
    THEN [f EXCEPT !.causal_effect = reshape(f.causal_effect, f.n)]
    ELSE f

\* if causal_effect.ndim == 3: causal_effect.reshape(n, -1)   (result dropped)
Flatten(f) ==
    IF ndim(f.causal_effect) = 3
    THEN LET dropped == reshape(f.causal_effect, f.n) IN f
    ELSE f

TreeParams_swapped(slf) ==
    [criterion |-> slf.criterion,
     splitter |-> slf.splitter,
     max_depth |-> slf.max_depth,
     min_samples_split |-> slf.min_samples_split,
     min_samples_leaf |-> slf.min_samples_leaf,
     random_state |-> slf.random_state,
     max_leaf_nodes |-> slf.max_features,
     max_features |-> slf.max_leaf_nodes,
     min_impurity_decrease |-> slf.min_impurity_decrease,
     ccp_alpha |-> slf.ccp_alpha,
     min_weight_fraction_leaf |-> slf.min_weight_fraction_leaf]

\* the keyword arguments of the PolicyTree(...) call
TreeParams(slf) ==
    [criterion |-> slf.criterion,
     splitter |-> slf.splitter,
     max_depth |-> slf.max_depth,
     min_samples_split |-> slf.min_samples_split,
     min_samples_leaf |-> slf.min_samples_leaf,
     random_state |-> slf.random_state,
     max_leaf_nodes |-> slf.max_leaf_nodes,
     max_features |-> slf.max_features,
     min_impurity_decrease |-> slf.min_impurity_decrease,
     ccp_alpha |-> slf.ccp_alpha,
     min_weight_fraction_leaf |-> slf.min_weight_fraction_leaf]

BuildTree_reusing(f) ==
    IF f.self._tree = Unset
    THEN [f EXCEPT !.self._tree = PolicyTree(TreeParams(f.self)),
                   !.calls = Append(@, [callee |-> "PolicyTree",
                                        params |-> TreeParams(f.self)])]
    ELSE f

BuildTree(f) ==
    [f EXCEPT !.self._tree = PolicyTree(TreeParams(f.self)),
              !.calls = Append(@, [callee |-> "PolicyTree",
                                   params |-> TreeParams(f.self)])]

FitTree(f) ==
    LET r == PolicyTree_fit(f.self._tree, f.data, f.covariate, f.causal_effect, f.env)
        g == [f EXCEPT !.self._tree = r.tree,
                       !.calls = Append(@, [callee |-> "_tree.fit", data |-> f.data,
                                            covariate |-> f.covariate,
                                            effect_array |-> f.causal_effect])]
    IN IF r.exc = NoExc THEN g ELSE [g EXCEPT !.exc = r.exc]

MarkFitted(f) == [f EXCEPT !.self._is_fitted = TRUE]

Return_nothing(f) == [f EXCEPT !.ret = None]

Return(f) == [f EXCEPT !.ret = SelfRef]

\* the statements of fit, in source order
Statements ==
    << "ReadEstimator", "AssertCovariate", "AssertEstimatorFitted", "Convert",
       "StoreV", "AssertUnivariate", "Estimate", "Flatten", "BuildTree",
       "FitTree", "MarkFitted", "Return" >>

Exec(stmt, f) ==
    CASE stmt = "ReadEstimator" -> ReadEstimator(f)
      [] stmt = "AssertCovariate" -> AssertCovariate(f)
      [] stmt = "AssertEstimatorFitted" -> AssertEstimatorFitted(f)
      [] stmt = "Convert" -> Convert(f)
      [] stmt = "StoreV" -> StoreV(f)
      [] stmt = "AssertUnivariate" -> AssertUnivariate(f)
      [] stmt = "Estimate" -> Estimate(f)
      [] stmt = "Flatten" -> Flatten(f)
      [] stmt = "BuildTree" -> BuildTree(f)
      [] stmt = "FitTree" -> FitTree(f)
      [] stmt = "MarkFitted" -> MarkFitted(f)
      [] stmt = "Return" -> Return(f)

\* run the statements one after the other until one raises
RECURSIVE Run(_, _)
Run(stmts, f) ==
    IF stmts = <<>> \/ Pending(f) THEN f
    ELSE Run(Tail(stmts), Exec(Head(stmts), f))

fit(slf, data, est_model, kwargs, env) ==
    Run(Statements, Enter(slf, data, est_model, kwargs, env))

(* ----------------------------- interpret ------------------------------- *)
\* NotImplemented is a constant, not an exception class: calling it fails
\* before the raise statement has anything to raise
CallNotImplemented ==
    [kind |-> "TypeError", msg |-> "'NotImplementedType' object is not callable"]

interpret(slf) ==
    IF ~slf._is_fitted
    THEN [kind |-> "AssertionError",
          msg |-> "The model is not fitted yet. Please use the fit method first."]
    ELSE CallNotImplemented

(* --------------------------- state machine ----------------------------- *)
NoCall ==
    [op |-> "__init__", pre |-> Unset, data |-> 0, est_model |-> Unset,
     est_after |-> Unset, kwargs |-> <<>>, calls |-> <<>>,
     exc |-> NoExc, ret |-> Unset]

Init ==
    /\ ctor \in Configurations
    /\ self = __init__(ctor)
    /\ last = NoCall

Fit ==
    \E data \in Data, est_model \in Estimators, kwargs \in Kwargs, env \in Envs :
        LET f == fit(self, data, est_model, kwargs, env)
        IN /\ self' = f.self
           /\ last' = [op |-> "fit", pre |-> self, data |-> data,
                       est_model |-> est_model, est_after |-> f.est_model,
                       kwargs |-> kwargs, calls |-> f.calls,
                       exc |-> f.exc, ret |-> f.ret]
           /\ UNCHANGED ctor

Interpret ==
    /\ last' = [NoCall EXCEPT !.op = "interpret", !.pre = self,
                              !.exc = interpret(self)]
    /\ UNCHANGED <<self, ctor>>

Next == Fit \/ Interpret

Spec == Init /\ [][Next]_vars

(* ------------------------------ properties ----------------------------- *)
FitCalled == last.op = "fit"
FitReturned == last.op = "fit" /\ last.exc = NoExc
FitRaised == last.op = "fit" /\ last.exc # NoExc

CallsTo(callee) == SelectSeq(last.calls, LAMBDA c : c.callee = callee)

CovariatePresent == last.est_model.covariate # None
EstimatorFitted == last.est_model._is_fitted
OutcomeUnivariate == Len(last.est_model.outcome.items) = 1
PreconditionsHold == CovariatePresent /\ EstimatorFitted /\ OutcomeUnivariate

\* the covariate matrix a call converts from its data
ConvertedV ==
    convert2array(last.data, last.est_model.covariate, last.est_model.outcome)[1]

FittedState(slf) == <<slf.v, slf._tree, slf._is_fitted>>

NotFittedMsg == "The model is not fitted yet. Please use the fit method first."

\* C1: interpret() on an unfitted instance fails with the "not fitted"
\* assertion, on a fitted instance it fails with a NotImplementedError, and
\* it never returns normally.
C1_InterpretSignals ==
    last.op = "interpret" =>
        /\ last.exc # NoExc
        /\ IF last.pre._is_fitted
           THEN last.exc.kind = "NotImplementedError"
           ELSE last.exc = [kind |-> "AssertionError", msg |-> NotFittedMsg]

\* C2: a fit whose estimator has no covariate, or is not fitted, or whose
\* outcome does not resolve to exactly one column fails with an assertion
\* failure, constructs no PolicyTree and leaves self._tree as it was.
C2_PreconditionFailures ==
    (FitCalled /\ ~PreconditionsHold) =>
        /\ last.exc.kind = "AssertionError"
        /\ CallsTo("PolicyTree") = <<>>
        /\ self._tree = last.pre._tree

\* a fitted instance is re-fitted with a two-column outcome: the assertion
\* fails and the earlier tree is still in place
C2_Witness ==
    /\ FitCalled /\ CovariatePresent /\ EstimatorFitted
    /\ Len(last.est_model.outcome.items) = 2
    /\ last.exc.kind = "AssertionError"
    /\ last.pre._tree # Unset
    /\ self._tree = last.pre._tree

\* C3: after a fit that failed an assertion the instance is never fit-marked
\* while v holds the covariate matrix that failed call wrote (here: wrote in
\* place of a different one).
C3_NoFitMarkedPartialState ==
    ~ /\ FitCalled /\ last.exc.kind = "AssertionError"
      /\ CallsTo("convert2array") # <<>>
      /\ self.v = ConvertedV /\ self.v # last.pre.v
      /\ self._is_fitted

\* C4: a successful fit on an already fitted instance leaves v, _tree and
\* _is_fitted as the same call leaves them on a freshly constructed instance
\* of the same configuration.
C4_RefitReplaces ==
    (FitReturned /\ last.pre._is_fitted) =>
        LET env == [effect_ndim |-> ndim(CallsTo("est_model.estimate")[1].returned),
                    tree_fit_ok |-> TRUE]
            alone == fit(__init__(ctor), last.data, last.est_model, last.kwargs, env)
        IN /\ alone.exc = NoExc
           /\ FittedState(self) = FittedState(alone.self)
           /\ Len(self._tree.fits) = 1

\* a second successful fit, on other data than the fit before it
C4_Witness ==
    /\ FitReturned /\ last.pre._is_fitted
    /\ last.pre.v # Unset /\ last.pre.v # self.v
    /\ last.pre._tree.fits # <<>> /\ last.pre._tree # self._tree

\* C5: a fit that raises, at whatever step, leaves _tree and _is_fitted as
\* they were before the call.
C5_FailedFitKeepsTreeAndFlag ==
    FitRaised =>
        /\ self._tree = last.pre._tree
        /\ self._is_fitted = last.pre._is_fitted

\* C6: a fit that returns normally returns the instance itself, fit-marked,
\* with v converted from the call's data and _tree a PolicyTree constructed
\* in the call and fitted once, on the call's data, the estimator's covariate
\* names and the effect array the estimator returned in the call.
C6_SuccessfulFit ==
    FitReturned =>
        /\ last.ret = SelfRef
        /\ self._is_fitted
        /\ self.v = ConvertedV
        /\ Len(CallsTo("PolicyTree")) = 1
        /\ Len(CallsTo("est_model.estimate")) = 1
        /\ self._tree = [tag |-> "PolicyTree",
                         params |-> CallsTo("PolicyTree")[1].params,
                         fits |-> << [data |-> last.data,
                                      covariate |-> last.est_model.covariate,
                                      effect_array |->
                                          CallsTo("est_model.estimate")[1].returned] >>]

\* a re-fit that returned: the tree in place is not the one from before
C6_Witness ==
    /\ FitReturned /\ last.pre._is_fitted
    /\ last.data = NumData
    /\ self._tree # last.pre._tree

\* C7: the eleven hyperparameters hold the constructor's arguments in every
\* state, before and after every call, and every PolicyTree is constructed
\* with the stored value of each under the same name.
C7_HyperparametersKept ==
    \A h \in HyperNames :
        /\ self[h] = ctor[h]
        /\ last.op # "__init__" => last.pre[h] = ctor[h]
        /\ \A i \in 1..Len(last.calls) :
               last.calls[i].callee = "PolicyTree" =>
                   /\ DOMAIN last.calls[i].params = HyperNames
                   /\ last.calls[i].params[h] = ctor[h]
        /\ self._tree # Unset =>
               /\ DOMAIN self._tree.params = HyperNames
               /\ self._tree.params[h] = ctor[h]

\* a tree built from a configuration whose eleven values all differ
C7_Witness ==
    /\ ctor = CustomArgs
    /\ FitCalled /\ CallsTo("PolicyTree") # <<>>
    /\ self._tree # Unset

\* C8: a fit invokes est_model.estimate at most once, with the call's data
\* and quantity=None, only when all three preconditions hold; it invokes no
\* other method of the estimator and leaves the estimator's attributes as
\* they were.
C8_EstimatorReadOnly ==
    FitCalled =>
        /\ Len(CallsTo("est_model.estimate")) <= 1
        /\ \A i \in 1..Len(last.calls) :
               /\ last.calls[i].callee \in
                      {"convert2array", "est_model.estimate", "PolicyTree", "_tree.fit"}
               /\ last.calls[i].callee = "est_model.estimate" =>
                      /\ last.calls[i].data = last.data
                      /\ last.calls[i].quantity = None
                      /\ last.calls[i].kwargs = last.kwargs
                      /\ PreconditionsHold
                      /\ i > 1 /\ last.calls[i - 1].callee = "convert2array"
        /\ ~PreconditionsHold => CallsTo("est_model.estimate") = <<>>
        /\ last.est_after = last.est_model

\* estimate was invoked, and raised
C8_Witness ==
    /\ FitCalled /\ PreconditionsHold
    /\ Len(CallsTo("est_model.estimate")) = 1
    /\ last.exc.kind = "EstimatorError"

\* C9: the effect_array handed to the policy tree's fit is the array the
\* estimator returned, shape included, whether it has 1, 2 or 3 dimensions.
C9_EffectArrayUnchanged ==
    FitCalled =>
        \A i \in 1..Len(last.calls) :
            last.calls[i].callee = "_tree.fit" =>
                /\ Len(CallsTo("est_model.estimate")) = 1
                /\ last.calls[i].effect_array = CallsTo("est_model.estimate")[1].returned
                /\ last.calls[i].effect_array.shape =
                       CallsTo("est_model.estimate")[1].returned.shape

\* a 3-dimensional effect array reached the tree's fit
C9_Witness ==
    /\ FitCalled /\ CallsTo("_tree.fit") # <<>>
    /\ CallsTo("_tree.fit")[1].effect_array.shape = <<nrows(last.data), NumArms, NumArms>>

\* C10: _is_fitted is false after construction, turns true exactly in a fit
\* whose policy tree fit returned normally, and no call turns it back to
\* false; interpret on a fitted instance never reports "not fitted".
C10_FittedMonotonic ==
    /\ last.op = "__init__" => ~self._is_fitted
    /\ last.op # "__init__" =>
        /\ last.pre._is_fitted => self._is_fitted
        /\ (self._is_fitted /\ ~last.pre._is_fitted) =>
               (FitReturned /\ CallsTo("_tree.fit") # <<>>)
        /\ (FitCalled /\ CallsTo("_tree.fit") # <<>> /\ last.exc = NoExc) =>
               self._is_fitted
        /\ (last.op = "interpret" /\ last.pre._is_fitted) =>
               last.exc.msg # NotFittedMsg

\* a fitted instance after a re-fit that failed
C10_Witness ==
    /\ FitRaised /\ last.pre._is_fitted /\ self._is_fitted
    /\ self.v # last.pre.v

====
